---- MODULE Spec2Model ----
(***************************************************************************)
(* Model of the cue node (src/main.py): the coroutines that Node.run_tasks *)
(* gathers on one asyncio event loop, the remote store they poll through   *)
(* the Communication collaborator, and the button hardware.                *)
(*                                                                         *)
(* A step of the model is the code a coroutine runs between two suspension *)
(* points (an await of a pending future, or an asyncio.sleep).  Durations  *)
(* of the sleeps are not modelled: a sleeping coroutine may resume at any  *)
(* later moment.                                                           *)
(***************************************************************************)
EXTENDS Integers, FiniteSets, Sequences, TLC

(***************************************************************************)
(* Values                                                                  *)
(***************************************************************************)
\* Number of distinct timestamps the remote store can show (bound).
NumClocks == 2

\* Python's None, as receive_data returns it for a datatype that is absent.
None == [none |-> TRUE]

\* An attribute of the Node object that has not been assigned yet.
Unset == [unset |-> TRUE]

\* pd.Series(): a series with no entries (Series.empty is True).
EmptySeries == [k \in {} |-> TRUE]

\* A timestamp of the remote store ('Online' datatype); compared, never ordered.
Clock(i) == [time |-> i]
Clocks == {Clock(i) : i \in 1..NumClocks}

\* The node's MAC address (get_mac()) and the address of some other node.
mac == "b8:27:eb:00:00:01"
otherMac == "b8:27:eb:00:00:02"

\* Rows of the 'Attributes' dataframe.
AttrRowA == ("Node Number" :> "1" @@ "Node Name" :> "Stage Left" @@ "Cue Prefix" :> "A")
AttrRowB == ("Node Number" :> "2" @@ "Node Name" :> "Stage Right" @@ "Cue Prefix" :> "B")

\* 'Attributes' dataframes, indexed by MAC address: one without a row for this
\* node, and two that describe this node differently.
AttributeFrames ==
    { (otherMac :> AttrRowB),
      (mac :> AttrRowA @@ otherMac :> AttrRowB),
      (mac :> AttrRowB @@ otherMac :> AttrRowA) }

\* The attributes the store publishes for the show that Spec follows.
ShowAttributes == (mac :> AttrRowA @@ otherMac :> AttrRowB)

\* 'Cue to Node' dataframes: cue state -> initial and final node state.
StateRow(initial, final) ==
    ("Initial Node State" :> initial @@ "Final Node State" :> final)
ShowStateFrame ==
    ("Standby" :> StateRow("None", "Ready") @@ "Go" :> StateRow("None", "Done"))
OtherStateFrame ==
    ("Standby" :> StateRow("Ready", "Done"))
StateFrames == {ShowStateFrame, OtherStateFrame}

\* Rows of the 'Current' dataframe (the cue of one cue prefix).
Cue(number, state, action) ==
    ("Cue Number" :> number @@ "Cue State" :> state @@ "Action" :> action)
Cues ==
    { Cue("12", "Standby", "Hold"),
      Cue("12", "Standby", "Fire"),
      Cue("12", "Go", "Hold"),
      Cue("13", "Standby", "Hold"),
      Cue("13", "Warning", "Hold") }

\* 'Current' dataframes, indexed by cue prefix.
CueFrames == {("A" :> c) : c \in Cues} \cup {("B" :> Cue("40", "Go", "Hold"))}

(***************************************************************************)
(* State                                                                   *)
(***************************************************************************)
VARIABLES
    \* what Communication.receive_data returned last, per caller
    newServerTime,    \* datatype 'Online', in __uptodate_check
    all_attributes,   \* datatype 'Attributes', in __update_attributes
    serverFrame,      \* datatype 'Cue to Node', in __update_state_frame
    all_cue_nums,     \* datatype 'Current', in __get_cue_series
    \* the button hardware
    isPressed,        \* ButtonManager.isPressed
    \* the event loop
    pc,               \* where each coroutine is suspended
    awaiting,         \* the future a coroutine suspended on
    orch,             \* where run_tasks is
    errors,           \* ErrorStorage.__errors
    \* the Node object
    uptodate_future,  \* self.__uptodate_future: the current future object
    futDone,          \* done() of each future object
    oldServerTime,    \* self.__oldServerTime
    attributes_dict,  \* self.__attributes_dict
    stateFrame,       \* self.__stateFrame
    cueSeries,        \* self.__cueSeries
    nodeSeries,       \* self.__nodeSeries
    changeState,      \* self.__changeState
    initialState,     \* self.__initialState
    justPressed,      \* self.__justPressed
    \* history of the current cycle of __update_node_series
    branch,           \* the branch its last evaluation took
    sent,             \* the records handed to send_message since that evaluation
    finalsSinceAdopt, \* advances to the final node state since the last adoption
    pressedSinceAdopt, \* the button was pressed after the last adoption of a cue
    \* the coroutines of the LEDs and of the display
    uipc,             \* where each of them is suspended
    \* GPIOManagement
    gpio,             \* its fields isConnected, screenTask, screenArg, buttonTask, buttonArg
    rendered,         \* the two coroutines run_LED_tasks has gathered and is running
    \* locals of __update_LEDs
    cueState,
    nodeState,
    \* LCDDisplay
    isSetup,          \* self.__isSetup
    lcdMessage,       \* self.__message
    currentPriority,  \* self.__currentPriority
    lastCall,         \* the arguments of the last call of display_text
    \* locals of __update_display
    first,
    message

envVars == <<newServerTime, all_attributes, serverFrame, all_cue_nums, isPressed>>
orchVars == <<orch, errors>>
loopVars == <<pc, awaiting, orchVars>>
gateVars == <<uptodate_future, futDone, oldServerTime>>
setupVars == <<attributes_dict, stateFrame>>
nodeVars == <<cueSeries, nodeSeries, changeState, initialState, justPressed>>
histVars == <<branch, sent, finalsSinceAdopt, pressedSinceAdopt>>
gpioVars == <<gpio, rendered>>
ledVars == <<gpioVars, cueState, nodeState>>
lcdVars == <<isSetup, lcdMessage, currentPriority, lastCall>>
displayVars == <<first, message>>
uiVars == <<uipc, ledVars, lcdVars, displayVars>>
vars == <<envVars, loopVars, gateVars, setupVars, nodeVars, histVars, uiVars>>

\* The coroutines, in the order the event loop first runs them: the two setup
\* coroutines are wrapped by the gather of line 121, the others by that of line 130.
StartOrder ==
    << "update_state_frame", "update_attributes", "uptodate_check",
       "get_cue_series", "get_button_input", "update_node_series" >>
Tasks == {StartOrder[i] : i \in DOMAIN StartOrder}

\* The coroutines of the LEDs and of the display, which the gather of line 130
\* starts after __uptodate_check and before __get_cue_series.
UITasks == {"update_LEDs", "run_LEDs", "update_display"}

\* The coroutines that await self.__uptodate_future.
GateWaiters ==
    {"update_state_frame", "update_attributes", "get_cue_series", "update_node_series"}

\* Future objects: at most the current one and one per suspended coroutine are alive.
FutId == 0..Cardinality(GateWaiters)
NoFut == Cardinality(GateWaiters) + 1

\* GPIOManagement.__init__ and LCDDisplay.__init__ with the display found.
\* GPIOManagement.default_screen, solid_screen and blink_screen: each returns the
\* object g with the screen task, and its argument if it takes one, replaced.
default_screen(g) == [g EXCEPT !.screenTask = "default_screen"]
solid_screen(g, hexString) ==
    [g EXCEPT !.screenTask = "solid_screen", !.screenArg = hexString]
blink_screen(g, hexString) ==
    [g EXCEPT !.screenTask = "blink_screen", !.screenArg = hexString]

\* GPIOManagement.standby, multiple_standbys and go
standby(g) == solid_screen(g, "FFFF00")
multiple_standbys(g) == blink_screen(g, "FFFF00")
go(g) == solid_screen(g, "00FF00")

\* GPIOManagement.button_state and blink_button
button_state(g, state) == [g EXCEPT !.buttonTask = "button_state", !.buttonArg = state]
blink_button(g) == [g EXCEPT !.buttonTask = "blink_button"]

\* GPIOManagement.connected
connected(g, state) == [g EXCEPT !.isConnected = state]

\* GPIOManagement.__init__, lines 201-211: default_screen() and
\* button_state(False) run before the two arguments are assigned.
GPIOManagement ==
    [ button_state(default_screen(
          [isConnected |-> FALSE, screenTask |-> Unset, screenArg |-> Unset,
           buttonTask |-> Unset, buttonArg |-> Unset]), FALSE)
      EXCEPT !.screenArg = "0000FF", !.buttonArg = FALSE ]

InitUI ==
    /\ gpio = GPIOManagement
    /\ rendered = Unset
    /\ cueState = Unset
    /\ nodeState = Unset
    /\ lcdMessage = << >>
    /\ currentPriority = 0
    /\ lastCall = Unset
    /\ first = TRUE
    /\ message = Unset

\* The state when run_tasks begins, with the coroutines `ui` of the LEDs and of
\* the display taking part and the others of them left out.
InitWith(ui) ==
    /\ newServerTime = Unset
    /\ all_attributes = Unset
    /\ serverFrame = Unset
    /\ all_cue_nums = Unset
    /\ isPressed = FALSE
    /\ pc = [t \in Tasks |-> "init"]
    /\ awaiting = [t \in GateWaiters |-> NoFut]
    /\ orch = "gather"
    /\ errors = << >>
    /\ uptodate_future = 0
    /\ futDone = [f \in FutId |-> FALSE]
    /\ oldServerTime = Unset
    /\ attributes_dict = Unset
    /\ stateFrame = Unset
    /\ cueSeries = Unset
    /\ nodeSeries = EmptySeries
    /\ changeState = FALSE
    /\ initialState = TRUE
    /\ justPressed = FALSE
    /\ branch = "none"
    /\ sent = << >>
    /\ finalsSinceAdopt = 0
    /\ pressedSinceAdopt = FALSE
    /\ uipc = [t \in UITasks |-> IF t \in ui THEN "init" ELSE "off"]
    /\ InitUI

Init == InitWith({}) /\ isSetup = TRUE

(***************************************************************************)
(* The event loop                                                          *)
(***************************************************************************)
\* run_tasks has returned: asyncio.run cancels whatever is still suspended.
Running == orch # "returned"

\* A coroutine has run up to its first suspension.
Started(t) ==
    IF t = "uptodate_check" THEN pc[t] \notin {"init", "poll"} ELSE pc[t] # "init"

\* The loop runs new tasks first in, first out.
MayStart(t) ==
    /\ pc[t] = "init"
    /\ \A i, j \in DOMAIN StartOrder :
          (i < j /\ StartOrder[j] = t) => Started(StartOrder[i])
    /\ t \in {"get_cue_series", "get_button_input", "update_node_series"} =>
          \A u \in UITasks : uipc[u] # "init"

\* A coroutine suspended on a future whose result has been set: the loop has
\* scheduled its wake-up.
Woken(t) == pc[t] = "waiting" /\ futDone[awaiting[t]]

\* self.__uptodate_future.done()
GateReady == futDone[uptodate_future]

\* self.__setup_tasks.done(): both coroutines of the inner gather returned.
SetupDone == pc["update_state_frame"] = "done" /\ pc["update_attributes"] = "done"

\* `await self.__uptodate_future` with the future pending: suspend on it.
Suspend(t) ==
    /\ pc' = [pc EXCEPT ![t] = "waiting"]
    /\ awaiting' = [awaiting EXCEPT ![t] = uptodate_future]

\* get_running_loop().create_future(): an object no reference points to.
Referenced == {uptodate_future} \cup {awaiting[t] : t \in GateWaiters}
NewFuture == CHOOSE f \in FutId \ Referenced : \A g \in FutId \ Referenced : f <= g

(***************************************************************************)
(* The remote store.  Communication.receive_data returns the store's        *)
(* content at the moment of the call, which the server may have replaced or *)
(* withdrawn since the previous call: each call draws its result from the   *)
(* set of values the store can hold.                                        *)
(***************************************************************************)
\* Datatype 'Online'.
ClockReads == Clocks \cup {None}

\* Datatypes 'Attributes' and 'Cue to Node' of a store that republishes or
\* withdraws them at any time.
AnyAttributes == AttributeFrames \cup {None}
AnyStateFrame == StateFrames \cup {None}

\* The same datatypes during one show: absent until the server publishes the
\* show's configuration, the attributes at first without a row for this node.
ShowAttributeReads == {None, (otherMac :> AttrRowB), ShowAttributes}
ShowStateFrameReads == {None, ShowStateFrame}

\* Datatype 'Current'.
CueReads == CueFrames \cup {None}

\* A show whose cues go through every cue state the LEDs tell apart, and one
\* more ("Clear"); every cue state has a row in the table of the show.
LEDStateFrame ==
    ( "Standby" :> StateRow("None", "Ready") @@ "Go" :> StateRow("None", "Done")
      @@ "Multiple Standbys" :> StateRow("None", "Ready")
      @@ "Clear" :> StateRow("None", "Done") )
LEDCues ==
    << Cue("12", "Standby", "Hold"), Cue("12", "Go", "Hold"),
       Cue("13", "Multiple Standbys", "Hold"), Cue("13", "Clear", "Hold") >>
LEDCueReads == {("A" :> LEDCues[i]) : i \in DOMAIN LEDCues}

\* The reads of 'Current' during the first two cues of that show.
OpeningCueReads == {("A" :> LEDCues[i]) : i \in 1..2}

\* The show only advances: a read of 'Current' never returns a cue that comes
\* before the cue of the previous read.
CuePosition(read) ==
    IF read = Unset THEN 0 ELSE CHOOSE i \in DOMAIN LEDCues : LEDCues[i] = read["A"]
ShowAdvances ==
    UNCHANGED all_cue_nums \/ CuePosition(all_cue_nums') >= CuePosition(all_cue_nums)

(***************************************************************************)
(* Readiness gate: Node.__uptodate_check                                   *)
(***************************************************************************)
\* Line 178: the first read, before the loop.
uptodate_check_start ==
    /\ Running
    /\ MayStart("uptodate_check")
    /\ oldServerTime' \in ClockReads
    /\ pc' = [pc EXCEPT !["uptodate_check"] = "poll"]
    /\ UNCHANGED <<uptodate_future, futDone, awaiting, orchVars>>
    /\ UNCHANGED <<envVars, setupVars, nodeVars, histVars>>
    /\ UNCHANGED uiVars

\* A gate that latches: a stale poll leaves a completed future in place.
uptodate_pass_latched(new) ==
    IF new # None /\ new # oldServerTime
    THEN /\ futDone' = [futDone EXCEPT ![uptodate_future] = TRUE]
         /\ oldServerTime' = new
         /\ UNCHANGED uptodate_future
    ELSE UNCHANGED <<uptodate_future, futDone, oldServerTime>>

\* A gate that makes a new future on every stale poll, without the done() test
\* of line 205.
uptodate_pass_renews(new) ==
    IF new # None /\ new # oldServerTime
    THEN /\ futDone' = [futDone EXCEPT ![uptodate_future] = TRUE]
         /\ oldServerTime' = new
         /\ UNCHANGED uptodate_future
    ELSE /\ uptodate_future' = NewFuture
         /\ futDone' = [futDone EXCEPT ![NewFuture] = FALSE]
         /\ UNCHANGED oldServerTime

\* Lines 187-211: one pass of the loop, for the value just read.
uptodate_pass(new) ==
    IF new # None /\ new # oldServerTime
    THEN /\ futDone' = [futDone EXCEPT ![uptodate_future] = TRUE]
         /\ oldServerTime' = new
         /\ UNCHANGED uptodate_future
    ELSE /\ IF futDone[uptodate_future]
            THEN /\ uptodate_future' = NewFuture
                 /\ futDone' = [futDone EXCEPT ![NewFuture] = FALSE]
            ELSE UNCHANGED <<uptodate_future, futDone>>
         /\ UNCHANGED oldServerTime

\* A poll: the first one follows line 178 at once, the later ones a sleep.  The
\* coroutines a set_result woke run before any sleep of this coroutine ends.
uptodate_check_poll ==
    /\ Running
    /\ pc["uptodate_check"] \in {"poll", "sleep"}
    /\ \A t \in GateWaiters : ~Woken(t)
    /\ newServerTime' \in ClockReads
    /\ uptodate_pass(newServerTime')
    /\ pc' = [pc EXCEPT !["uptodate_check"] = "sleep"]
    /\ UNCHANGED <<awaiting, orchVars>>
    /\ UNCHANGED <<all_attributes, serverFrame, all_cue_nums, isPressed>>
    /\ UNCHANGED <<setupVars, nodeVars, histVars>>
    /\ UNCHANGED uiVars

(***************************************************************************)
(* Attribute synchronizer: Node.__update_attributes                        *)
(***************************************************************************)
\* A synchronizer whose loop goes on after a success.
attributes_fetch_refetches(reads) ==
    /\ all_attributes' \in reads
    /\ IF all_attributes' # None /\ mac \in DOMAIN all_attributes'
       THEN attributes_dict' = all_attributes'[mac]
       ELSE UNCHANGED attributes_dict
    /\ pc' = [pc EXCEPT !["update_attributes"] = "backoff"]

\* A synchronizer that catches AttributeError only: a frame without a row for
\* this node ends the task.
attributes_fetch_key_fatal(reads) ==
    /\ all_attributes' \in reads
    /\ IF all_attributes' # None /\ mac \in DOMAIN all_attributes'
       THEN /\ attributes_dict' = all_attributes'[mac]
            /\ pc' = [pc EXCEPT !["update_attributes"] = "done"]
       ELSE /\ UNCHANGED attributes_dict
            /\ pc' = [pc EXCEPT !["update_attributes"] =
                         IF all_attributes' = None THEN "backoff" ELSE "failed"]

\* Lines 228-246: fetch, look this node up, cache or back off.
attributes_fetch(reads) ==
    /\ all_attributes' \in reads
    /\ IF all_attributes' # None /\ mac \in DOMAIN all_attributes'
       THEN /\ attributes_dict' = all_attributes'[mac]
            /\ pc' = [pc EXCEPT !["update_attributes"] = "done"]
       ELSE /\ UNCHANGED attributes_dict
            /\ pc' = [pc EXCEPT !["update_attributes"] = "backoff"]

\* What the attribute synchronizer leaves alone.
attributes_frame ==
    /\ UNCHANGED <<newServerTime, serverFrame, all_cue_nums, isPressed>>
    /\ UNCHANGED <<orchVars, stateFrame>>
    /\ UNCHANGED <<gateVars, nodeVars, histVars>>
    /\ UNCHANGED uiVars

\* Lines 222-225: the top of the loop, at the start or after the 5 s back-off.
update_attributes_loop(reads) ==
    /\ Running
    /\ \/ MayStart("update_attributes")
       \/ pc["update_attributes"] = "backoff"
    /\ IF GateReady
       THEN attributes_fetch(reads) /\ UNCHANGED awaiting
       ELSE Suspend("update_attributes") /\ UNCHANGED <<attributes_dict, all_attributes>>
    /\ attributes_frame

\* The future it suspended on got its result.
update_attributes_resume(reads) ==
    /\ Running
    /\ Woken("update_attributes")
    /\ awaiting' = [awaiting EXCEPT !["update_attributes"] = NoFut]
    /\ attributes_fetch(reads)
    /\ attributes_frame

(***************************************************************************)
(* Transition table synchronizer: Node.__update_state_frame                *)
(***************************************************************************)
\* Lines 270-285.
state_frame_fetch(reads) ==
    /\ serverFrame' \in reads
    /\ IF serverFrame' # None
       THEN /\ stateFrame' = serverFrame'
            /\ pc' = [pc EXCEPT !["update_state_frame"] = "done"]
       ELSE /\ UNCHANGED stateFrame
            /\ pc' = [pc EXCEPT !["update_state_frame"] = "backoff"]

\* What the transition table synchronizer leaves alone.
state_frame_frame ==
    /\ UNCHANGED <<newServerTime, all_attributes, all_cue_nums, isPressed>>
    /\ UNCHANGED <<orchVars, attributes_dict>>
    /\ UNCHANGED <<gateVars, nodeVars, histVars>>
    /\ UNCHANGED uiVars

\* Lines 264-267: the top of the loop, at the start or after the 2.5 s back-off.
update_state_frame_loop(reads) ==
    /\ Running
    /\ \/ MayStart("update_state_frame")
       \/ pc["update_state_frame"] = "backoff"
    /\ IF GateReady
       THEN state_frame_fetch(reads) /\ UNCHANGED awaiting
       ELSE Suspend("update_state_frame") /\ UNCHANGED <<stateFrame, serverFrame>>
    /\ state_frame_frame

update_state_frame_resume(reads) ==
    /\ Running
    /\ Woken("update_state_frame")
    /\ awaiting' = [awaiting EXCEPT !["update_state_frame"] = NoFut]
    /\ state_frame_fetch(reads)
    /\ state_frame_frame

(***************************************************************************)
(* The display: LCDDisplay                                                 *)
(*                                                                         *)
(* A text is the sequence of its cells; a cell is a fixed piece of text or *)
(* a field put into an f-string.  The display keeps the first Width cells. *)
(***************************************************************************)
\* text[:32]
Width == 32

Take(text, n) == SubSeq(text, 1, IF Len(text) < n THEN Len(text) ELSE n)

\* ' '*32
Padding == [i \in 1..Width |-> " "]

\* LCDDisplay.change_priority
change_priority(priority) == currentPriority' = priority

\* A display that shows every text, whatever its priority.
display_text_unlatched(text, priority) ==
    /\ lastCall' = [text |-> text, priority |-> priority]
    /\ IF isSetup
       THEN /\ lcdMessage' = Take(text, Width)
            /\ change_priority(priority)
       ELSE UNCHANGED <<lcdMessage, currentPriority>>

\* LCDDisplay.display_text
display_text(text, priority) ==
    /\ lastCall' = [text |-> text, priority |-> priority]
    /\ IF isSetup /\ priority >= currentPriority
       THEN /\ lcdMessage' = Take(text, Width)
            /\ change_priority(priority)
       ELSE UNCHANGED <<lcdMessage, currentPriority>>

\* The message of line 164 and its priority.
ErrorText == <<"An error has occurred: check log">>
ErrorPriority == 2

(***************************************************************************)
(* Sentinel getters and series assignment                                  *)
(***************************************************************************)
\* Node.__get_attribute_value: the value, or 'None' on KeyError.
get_attribute_value(key) ==
    IF key \in DOMAIN attributes_dict THEN attributes_dict[key] ELSE "None"

\* A getter that answers a missing index with the empty text, not with 'None'.
get_node_series_value_blank(ns, index) ==
    IF index \in DOMAIN ns THEN ns[index] ELSE ""

\* Node.__get_node_series_value on the series ns.
get_node_series_value(ns, index) ==
    IF index \in DOMAIN ns THEN ns[index] ELSE "None"

\* series[index] = value
SetItem(series, index, value) ==
    [k \in DOMAIN series \cup {index} |-> IF k = index THEN value ELSE series[k]]

\* A loop that wakes the coroutines that await self.__setup_tasks in any order.
SetupWoken_unordered(t) ==
    /\ pc[t] = "await_setup"
    /\ SetupDone

\* The coroutines that await self.__setup_tasks are woken in the order in
\* which they suspended on it.
SetupWoken(t) ==
    /\ pc[t] = "await_setup"
    /\ SetupDone
    /\ \A i, j \in DOMAIN StartOrder :
          (i < j /\ StartOrder[j] = t) => pc[StartOrder[i]] # "await_setup"

(***************************************************************************)
(* The button: ButtonManager and Node.__get_button_input                   *)
(***************************************************************************)
\* ButtonManager.pressed, the edge callback of the GPIO library.
Press ==
    /\ Running
    /\ isPressed' = TRUE
    /\ pressedSinceAdopt' = TRUE
    /\ UNCHANGED <<newServerTime, all_attributes, serverFrame, all_cue_nums>>
    /\ UNCHANGED <<branch, sent, finalsSinceAdopt>>
    /\ UNCHANGED <<loopVars, gateVars, setupVars, nodeVars>>
    /\ UNCHANGED uiVars

\* A monitor whose pass never reads the press flag.
button_pass_idle ==
    /\ UNCHANGED <<changeState, justPressed>>
    /\ pc' = [pc EXCEPT !["get_button_input"] = "sleep"]

\* A monitor that samples the button whether or not a change is requested.
button_pass_resamples ==
    /\ changeState' = isPressed
    /\ IF isPressed
       THEN /\ justPressed' = TRUE
            /\ pc' = [pc EXCEPT !["get_button_input"] = "window"]
       ELSE /\ UNCHANGED justPressed
            /\ pc' = [pc EXCEPT !["get_button_input"] = "sleep"]

\* Lines 541-559: one pass of the loop, up to the sleep it reaches.
button_pass ==
    IF ~changeState
    THEN /\ changeState' = isPressed
         /\ IF isPressed
            THEN /\ justPressed' = TRUE
                 /\ pc' = [pc EXCEPT !["get_button_input"] = "window"]
            ELSE /\ UNCHANGED justPressed
                 /\ pc' = [pc EXCEPT !["get_button_input"] = "sleep"]
    ELSE /\ UNCHANGED <<changeState, justPressed>>
         /\ pc' = [pc EXCEPT !["get_button_input"] = "sleep"]

\* Line 535: suspend on the setup tasks.
get_button_input_start ==
    /\ Running
    /\ MayStart("get_button_input")
    /\ pc' = [pc EXCEPT !["get_button_input"] = "await_setup"]
    /\ UNCHANGED <<awaiting, orchVars>>
    /\ UNCHANGED <<envVars, gateVars, setupVars, nodeVars, histVars>>
    /\ UNCHANGED uiVars

\* A pass of the loop, after setup or after the 0.01 s sleep.
get_button_input_loop ==
    /\ Running
    /\ \/ SetupWoken("get_button_input")
       \/ pc["get_button_input"] = "sleep"
    /\ button_pass
    /\ UNCHANGED <<awaiting, orchVars, cueSeries, nodeSeries, initialState>>
    /\ UNCHANGED <<envVars, gateVars, setupVars, histVars>>
    /\ UNCHANGED uiVars

\* Lines 553-559: the 4 s window ends.
get_button_input_window_end ==
    /\ Running
    /\ pc["get_button_input"] = "window"
    /\ justPressed' = FALSE
    /\ pc' = [pc EXCEPT !["get_button_input"] = "sleep"]
    /\ UNCHANGED <<awaiting, orchVars, cueSeries, nodeSeries, changeState, initialState>>
    /\ UNCHANGED <<envVars, gateVars, setupVars, histVars>>
    /\ UNCHANGED uiVars

(***************************************************************************)
(* Cue tracker: Node.__get_cue_series                                      *)
(***************************************************************************)
\* A tracker that takes the remote entry only while it tracks no cue.
cue_fetch_keeps_first(current, reads) ==
    LET prefix == get_attribute_value("Cue Prefix") IN
    /\ all_cue_nums' \in reads
    /\ IF all_cue_nums' # None /\ prefix \in DOMAIN all_cue_nums'
       THEN /\ cueSeries' = IF DOMAIN current = {} THEN all_cue_nums'[prefix] ELSE current
            /\ pc' = [pc EXCEPT !["get_cue_series"] = "sleep"]
       ELSE /\ cueSeries' = current
            /\ pc' = [pc EXCEPT !["get_cue_series"] = "backoff"]

\* Lines 311-329, with `current` the series held before the fetch.
cue_fetch(current, reads) ==
    LET prefix == get_attribute_value("Cue Prefix") IN
    /\ all_cue_nums' \in reads
    /\ IF all_cue_nums' # None /\ prefix \in DOMAIN all_cue_nums'
       THEN /\ cueSeries' = all_cue_nums'[prefix]
            /\ pc' = [pc EXCEPT !["get_cue_series"] = "sleep"]
       ELSE /\ cueSeries' = current
            /\ pc' = [pc EXCEPT !["get_cue_series"] = "backoff"]

\* What the cue tracker leaves alone.
cue_frame ==
    /\ UNCHANGED <<newServerTime, all_attributes, serverFrame, isPressed>>
    /\ UNCHANGED <<orchVars, nodeSeries, changeState, initialState, justPressed>>
    /\ UNCHANGED <<gateVars, setupVars, histVars>>
    /\ UNCHANGED uiVars

\* A tracker that does not wait for the setup tasks.
get_cue_series_start_ungated ==
    /\ Running
    /\ MayStart("get_cue_series")
    /\ cue_fetch(EmptySeries, CueReads)
    /\ UNCHANGED awaiting
    /\ cue_frame

\* Line 299.
get_cue_series_start ==
    /\ Running
    /\ MayStart("get_cue_series")
    /\ pc' = [pc EXCEPT !["get_cue_series"] = "await_setup"]
    /\ UNCHANGED <<awaiting, orchVars>>
    /\ UNCHANGED <<envVars, gateVars, setupVars, nodeVars, histVars>>
    /\ UNCHANGED uiVars

\* Lines 302-308: setup is done; the series starts empty and the loop begins.
get_cue_series_setup(reads) ==
    /\ Running
    /\ SetupWoken("get_cue_series")
    /\ IF GateReady
       THEN cue_fetch(EmptySeries, reads) /\ UNCHANGED awaiting
       ELSE Suspend("get_cue_series") /\ cueSeries' = EmptySeries /\ UNCHANGED all_cue_nums
    /\ cue_frame

\* Line 323 to line 329: the sleep of the except clause ends, that of finally begins.
get_cue_series_backoff ==
    /\ Running
    /\ pc["get_cue_series"] = "backoff"
    /\ pc' = [pc EXCEPT !["get_cue_series"] = "sleep"]
    /\ UNCHANGED <<awaiting, orchVars>>
    /\ UNCHANGED <<envVars, gateVars, setupVars, nodeVars, histVars>>
    /\ UNCHANGED uiVars

\* Lines 305-308: the next pass of the loop.
get_cue_series_loop(reads) ==
    /\ Running
    /\ pc["get_cue_series"] = "sleep"
    /\ IF GateReady
       THEN cue_fetch(cueSeries, reads) /\ UNCHANGED awaiting
       ELSE Suspend("get_cue_series") /\ UNCHANGED <<cueSeries, all_cue_nums>>
    /\ cue_frame

get_cue_series_resume(reads) ==
    /\ Running
    /\ Woken("get_cue_series")
    /\ awaiting' = [awaiting EXCEPT !["get_cue_series"] = NoFut]
    /\ cue_fetch(cueSeries, reads)
    /\ cue_frame

(***************************************************************************)
(* Task orchestrator: Node.run_tasks                                       *)
(***************************************************************************)
\* A task raised: the gather of line 130 passes the first exception on to
\* run_tasks, whose handler is scheduled; the other tasks are not cancelled and
\* keep running.
run_tasks_except ==
    /\ orch' = IF orch = "gather" THEN "handling" ELSE orch
    /\ UNCHANGED errors

\* traceback.format_exc() of the exception that run_tasks handles.
format_exc == "Traceback (most recent call last)"

\* ErrorStorage.update
errorStorage_update ==
    errors' = IF \E i \in DOMAIN errors : errors[i] = format_exc
              THEN errors
              ELSE Append(errors, format_exc)

\* A handler that shows the error message with the default priority.
run_tasks_handler_default ==
    /\ orch = "handling"
    /\ errorStorage_update
    /\ display_text(ErrorText, 1)
    /\ orch' = "sleeping"
    /\ UNCHANGED <<pc, awaiting, uipc, isSetup, ledVars, displayVars>>
    /\ UNCHANGED <<envVars, gateVars, setupVars, nodeVars, histVars>>

\* A handler that cleans up and returns without the 10 s sleep.
run_tasks_handler_hasty ==
    /\ orch = "handling"
    /\ errorStorage_update
    /\ display_text(ErrorText, ErrorPriority)
    /\ orch' = "returned"
    /\ UNCHANGED <<pc, awaiting, uipc, isSetup, ledVars, displayVars>>
    /\ UNCHANGED <<envVars, gateVars, setupVars, nodeVars, histVars>>

\* Lines 158-167: the handler logs the error, shows the error message and
\* begins its 10 s sleep.
run_tasks_handler ==
    /\ orch = "handling"
    /\ errorStorage_update
    /\ display_text(ErrorText, ErrorPriority)
    /\ orch' = "sleeping"
    /\ UNCHANGED <<pc, awaiting, uipc, isSetup, ledVars, displayVars>>
    /\ UNCHANGED <<envVars, gateVars, setupVars, nodeVars, histVars>>

\* Line 170: the sleep ends; cleanup, and run_tasks returns: asyncio.run
\* cancels the coroutines that are left and closes the loop.
run_tasks_cleanup ==
    /\ orch = "sleeping"
    /\ orch' = "returned"
    /\ UNCHANGED <<pc, awaiting, errors>>
    /\ UNCHANGED <<envVars, gateVars, setupVars, nodeVars, histVars>>
    /\ UNCHANGED uiVars

(***************************************************************************)
(* Node state machine: Node.__update_node_series                           *)
(***************************************************************************)
\* A test that takes a cue with another action for a new cue too.
MateriallyNew_with_action(ns) ==
    \/ DOMAIN ns = {}
    \/ \E attribute \in {"Cue Number", "Cue State", "Action"} :
          cueSeries[attribute] # get_node_series_value(ns, attribute)

\* Line 352: the node series is empty or differs in cue number or cue state.
MateriallyNew(ns) ==
    \/ DOMAIN ns = {}
    \/ \E attribute \in {"Cue Number", "Cue State"} :
          cueSeries[attribute] # get_node_series_value(ns, attribute)

\* The evaluation raised: the task ends with the exception.
node_raise(ns) ==
    /\ nodeSeries' = ns
    /\ branch' = "raised"
    /\ pc' = [pc EXCEPT !["update_node_series"] = "failed"]
    /\ run_tasks_except
    /\ UNCHANGED <<changeState, initialState, isPressed>>
    /\ UNCHANGED <<finalsSinceAdopt, pressedSinceAdopt>>

\* An adoption that takes the final node state of the table row.
node_adopt_final_state ==
    IF cueSeries["Cue State"] \in DOMAIN stateFrame
    THEN /\ nodeSeries' =
               SetItem(SetItem(cueSeries, "Node State",
                               stateFrame[cueSeries["Cue State"]]["Final Node State"]),
                       "Node Number", get_attribute_value("Node Number"))
         /\ changeState' = FALSE
         /\ initialState' = TRUE
         /\ isPressed' = FALSE
         /\ pressedSinceAdopt' = FALSE
         /\ finalsSinceAdopt' = 0
         /\ branch' = "adopt"
         /\ pc' = [pc EXCEPT !["update_node_series"] = "debounce"]
         /\ UNCHANGED orchVars
    ELSE node_raise(cueSeries)

\* An adoption that leaves the initialState flag lowered.
node_adopt_lowered ==
    IF cueSeries["Cue State"] \in DOMAIN stateFrame
    THEN /\ nodeSeries' =
               SetItem(SetItem(cueSeries, "Node State",
                               stateFrame[cueSeries["Cue State"]]["Initial Node State"]),
                       "Node Number", get_attribute_value("Node Number"))
         /\ changeState' = FALSE
         /\ initialState' = FALSE
         /\ isPressed' = FALSE
         /\ pressedSinceAdopt' = FALSE
         /\ finalsSinceAdopt' = 0
         /\ branch' = "adopt"
         /\ pc' = [pc EXCEPT !["update_node_series"] = "debounce"]
         /\ UNCHANGED orchVars
    ELSE node_raise(cueSeries)

\* An adoption without the reset_button_pressed() of line 367.
node_adopt_keeps_press ==
    IF cueSeries["Cue State"] \in DOMAIN stateFrame
    THEN /\ nodeSeries' =
               SetItem(SetItem(cueSeries, "Node State",
                               stateFrame[cueSeries["Cue State"]]["Initial Node State"]),
                       "Node Number", get_attribute_value("Node Number"))
         /\ changeState' = FALSE
         /\ initialState' = TRUE
         /\ pressedSinceAdopt' = FALSE
         /\ finalsSinceAdopt' = 0
         /\ branch' = "adopt"
         /\ pc' = [pc EXCEPT !["update_node_series"] = "debounce"]
         /\ UNCHANGED <<orchVars, isPressed>>
    ELSE node_raise(cueSeries)

\* An adoption that takes a cue state without a table row for a transient
\* failure: it skips the cycle and tries again in the next one.
node_adopt_retries ==
    IF cueSeries["Cue State"] \in DOMAIN stateFrame
    THEN /\ nodeSeries' =
               SetItem(SetItem(cueSeries, "Node State",
                               stateFrame[cueSeries["Cue State"]]["Initial Node State"]),
                       "Node Number", get_attribute_value("Node Number"))
         /\ changeState' = FALSE
         /\ initialState' = TRUE
         /\ isPressed' = FALSE
         /\ pressedSinceAdopt' = FALSE
         /\ finalsSinceAdopt' = 0
         /\ branch' = "adopt"
         /\ pc' = [pc EXCEPT !["update_node_series"] = "debounce"]
         /\ UNCHANGED orchVars
    ELSE /\ branch' = "idle"
         /\ pc' = [pc EXCEPT !["update_node_series"] = "sleep"]
         /\ UNCHANGED <<nodeSeries, orchVars, changeState, initialState, isPressed>>
         /\ UNCHANGED <<finalsSinceAdopt, pressedSinceAdopt>>

\* Lines 355-370: adopt the tracked cue.
node_adopt ==
    IF cueSeries["Cue State"] \in DOMAIN stateFrame
    THEN /\ nodeSeries' =
               SetItem(SetItem(cueSeries, "Node State",
                               stateFrame[cueSeries["Cue State"]]["Initial Node State"]),
                       "Node Number", get_attribute_value("Node Number"))
         /\ changeState' = FALSE
         /\ initialState' = TRUE
         /\ isPressed' = FALSE
         /\ pressedSinceAdopt' = FALSE
         /\ finalsSinceAdopt' = 0
         /\ branch' = "adopt"
         /\ pc' = [pc EXCEPT !["update_node_series"] = "debounce"]
         /\ UNCHANGED orchVars
    ELSE node_raise(cueSeries)

\* An advance that leaves the initialState flag raised.
node_final_repeats(ns) ==
    IF ns["Cue State"] \in DOMAIN stateFrame
    THEN /\ nodeSeries' =
               SetItem(ns, "Node State", stateFrame[ns["Cue State"]]["Final Node State"])
         /\ branch' = "final"
         /\ finalsSinceAdopt' = finalsSinceAdopt + 1
         /\ pc' = [pc EXCEPT !["update_node_series"] = "debounce"]
         /\ UNCHANGED <<orchVars, changeState, initialState, isPressed, pressedSinceAdopt>>
    ELSE node_raise(ns)

\* Lines 376-382: advance to the final node state.
node_final(ns) ==
    IF ns["Cue State"] \in DOMAIN stateFrame
    THEN /\ nodeSeries' =
               SetItem(ns, "Node State", stateFrame[ns["Cue State"]]["Final Node State"])
         /\ initialState' = FALSE
         /\ branch' = "final"
         /\ finalsSinceAdopt' = finalsSinceAdopt + 1
         /\ pc' = [pc EXCEPT !["update_node_series"] = "debounce"]
         /\ UNCHANGED <<orchVars, changeState, isPressed, pressedSinceAdopt>>
    ELSE node_raise(ns)

\* A skipped cycle that withdraws a pending change request.
node_skip_resets(ns, why) ==
    /\ nodeSeries' = ns
    /\ branch' = why
    /\ pc' = [pc EXCEPT !["update_node_series"] = "sleep"]
    /\ changeState' = FALSE
    /\ UNCHANGED <<orchVars, initialState, isPressed>>
    /\ UNCHANGED <<finalsSinceAdopt, pressedSinceAdopt>>

\* Lines 349 and 385: nothing to update.
node_skip(ns, why) ==
    /\ nodeSeries' = ns
    /\ branch' = why
    /\ pc' = [pc EXCEPT !["update_node_series"] = "sleep"]
    /\ UNCHANGED <<orchVars, changeState, initialState, isPressed>>
    /\ UNCHANGED <<finalsSinceAdopt, pressedSinceAdopt>>

\* Lines 349-391 or 400: one evaluation, with ns the node series before it.
node_cycle(ns) ==
    /\ sent' = << >>
    /\ IF cueSeries = Unset THEN node_raise(ns)
       ELSE IF DOMAIN cueSeries = {} THEN node_skip(ns, "absent")
       ELSE IF MateriallyNew(ns) THEN node_adopt
       ELSE IF changeState /\ initialState THEN node_final(ns)
       ELSE node_skip(ns, "idle")

\* What an evaluation leaves alone.
node_frame ==
    /\ UNCHANGED <<newServerTime, all_attributes, serverFrame, all_cue_nums>>
    /\ UNCHANGED <<cueSeries, justPressed>>
    /\ UNCHANGED <<gateVars, setupVars>>
    /\ UNCHANGED uiVars

\* `await self.__uptodate_future` with the future pending.
node_suspend(ns) ==
    /\ Suspend("update_node_series")
    /\ nodeSeries' = ns
    /\ UNCHANGED <<orchVars, changeState, initialState, isPressed>>
    /\ UNCHANGED histVars

\* Line 337.
update_node_series_start ==
    /\ Running
    /\ MayStart("update_node_series")
    /\ pc' = [pc EXCEPT !["update_node_series"] = "await_setup"]
    /\ UNCHANGED <<awaiting, orchVars>>
    /\ UNCHANGED <<envVars, gateVars, setupVars, nodeVars, histVars>>
    /\ UNCHANGED uiVars

\* Lines 340-346: setup is done; the node series starts empty and the loop begins.
update_node_series_setup ==
    /\ Running
    /\ SetupWoken("update_node_series")
    /\ IF GateReady
       THEN node_cycle(EmptySeries) /\ UNCHANGED awaiting
       ELSE node_suspend(EmptySeries)
    /\ node_frame

\* Lines 343-346: the next pass of the loop, after the sleep of line 400.
update_node_series_loop ==
    /\ Running
    /\ pc["update_node_series"] = "sleep"
    /\ IF GateReady
       THEN node_cycle(nodeSeries) /\ UNCHANGED awaiting
       ELSE node_suspend(nodeSeries)
    /\ node_frame

update_node_series_resume ==
    /\ Running
    /\ Woken("update_node_series")
    /\ awaiting' = [awaiting EXCEPT !["update_node_series"] = NoFut]
    /\ node_cycle(nodeSeries)
    /\ node_frame

\* A publish that sends the record before stamping it.
update_node_series_publish_unstamped ==
    /\ Running
    /\ pc["update_node_series"] = "debounce"
    /\ nodeSeries' = SetItem(nodeSeries, "Timestamp", oldServerTime)
    /\ sent' = Append(sent, nodeSeries)
    /\ pc' = [pc EXCEPT !["update_node_series"] = "sleep"]
    /\ UNCHANGED <<newServerTime, all_attributes, serverFrame, all_cue_nums, isPressed>>
    /\ UNCHANGED <<awaiting, orchVars, cueSeries, changeState, initialState, justPressed>>
    /\ UNCHANGED <<gateVars, setupVars, branch, finalsSinceAdopt, pressedSinceAdopt>>
    /\ UNCHANGED uiVars

\* Lines 394-400: after the sleep of line 391, stamp the record and send it.
update_node_series_publish ==
    /\ Running
    /\ pc["update_node_series"] = "debounce"
    /\ nodeSeries' = SetItem(nodeSeries, "Timestamp", oldServerTime)
    /\ sent' = Append(sent, nodeSeries')
    /\ pc' = [pc EXCEPT !["update_node_series"] = "sleep"]
    /\ UNCHANGED <<newServerTime, all_attributes, serverFrame, all_cue_nums, isPressed>>
    /\ UNCHANGED <<awaiting, orchVars, cueSeries, changeState, initialState, justPressed>>
    /\ UNCHANGED <<gateVars, setupVars, branch, finalsSinceAdopt, pressedSinceAdopt>>
    /\ UNCHANGED uiVars

\* Lines 394-397 when send_message raises: the task ends with the exception.
update_node_series_publish_fails ==
    /\ Running
    /\ pc["update_node_series"] = "debounce"
    /\ nodeSeries' = SetItem(nodeSeries, "Timestamp", oldServerTime)
    /\ sent' = Append(sent, nodeSeries')
    /\ pc' = [pc EXCEPT !["update_node_series"] = "failed"]
    /\ run_tasks_except
    /\ UNCHANGED <<awaiting, cueSeries, changeState, initialState, justPressed>>
    /\ UNCHANGED <<envVars, gateVars, setupVars>>
    /\ UNCHANGED <<branch, finalsSinceAdopt, pressedSinceAdopt>>
    /\ UNCHANGED uiVars

(***************************************************************************)
(* The LEDs: Node.__update_LEDs, Node.__run_LEDs and                        *)
(* GPIOManagement.run_LED_tasks                                             *)
(***************************************************************************)
\* What the coroutines of the LEDs leave alone.
led_frame ==
    /\ UNCHANGED <<envVars, loopVars, gateVars, setupVars, histVars>>
    /\ UNCHANGED <<cueSeries, nodeSeries, changeState, initialState>>
    /\ UNCHANGED <<lcdVars, displayVars>>

\* Lines 463-472 and 510: the start of __update_LEDs, or the top of its loop
\* after the 0.2 s sleep, up to the gather of line 475.
update_LEDs_loop ==
    /\ Running
    /\ \/ uipc["update_LEDs"] = "init" /\ Started("uptodate_check")
       \/ uipc["update_LEDs"] = "sleep"
    /\ justPressed' = IF uipc["update_LEDs"] = "init" THEN FALSE ELSE justPressed
    /\ gpio' = connected(gpio, GateReady)
    /\ uipc' = [uipc EXCEPT !["update_LEDs"] = IF GateReady THEN "gather" ELSE "sleep"]
    /\ UNCHANGED <<rendered, cueState, nodeState>>
    /\ led_frame

\* Line 475: the two getters run, one after the other.
update_LEDs_read ==
    /\ Running
    /\ uipc["update_LEDs"] = "gather"
    /\ cueState' = get_node_series_value(nodeSeries, "Cue State")
    /\ nodeState' = get_node_series_value(nodeSeries, "Node State")
    /\ uipc' = [uipc EXCEPT !["update_LEDs"] = "select"]
    /\ UNCHANGED <<gpioVars, justPressed>>
    /\ led_frame

\* A selection that leaves the screen alone once the node state is locked in.
led_select_keeps_screen(g, cue, node, pressed) ==
    IF node # "None"
    THEN button_state(g, cue = "Go" /\ pressed)
    ELSE IF cue = "Go"
    THEN blink_button(go(g))
    ELSE IF cue = "Standby" THEN standby(button_state(g, FALSE))
    ELSE IF cue = "Multiple Standbys" THEN multiple_standbys(button_state(g, FALSE))
    ELSE button_state(g, FALSE)

\* A selection that holds the colour of both standby cue states.
led_select_holds_standbys(g, cue, node, pressed) ==
    IF node # "None"
    THEN default_screen(button_state(g, cue = "Go" /\ pressed))
    ELSE IF cue = "Go"
    THEN blink_button(go(g))
    ELSE IF cue \in {"Standby", "Multiple Standbys"} THEN standby(button_state(g, FALSE))
    ELSE button_state(g, FALSE)

\* Lines 478-507: the GPIO object g after the selection for the values read.
led_select(g, cue, node, pressed) ==
    IF node # "None"
    THEN default_screen(button_state(g, cue = "Go" /\ pressed))
    ELSE IF cue = "Go"
    THEN blink_button(go(g))
    ELSE IF cue = "Standby" THEN standby(button_state(g, FALSE))
    ELSE IF cue = "Multiple Standbys" THEN multiple_standbys(button_state(g, FALSE))
    ELSE button_state(g, FALSE)

\* Lines 478-510: the gather is done; select and sleep.  The two locals are not
\* read again before line 475 assigns them anew.
update_LEDs_select ==
    /\ Running
    /\ uipc["update_LEDs"] = "select"
    /\ gpio' = led_select(gpio, cueState, nodeState, justPressed)
    /\ uipc' = [uipc EXCEPT !["update_LEDs"] = "sleep"]
    /\ cueState' = Unset
    /\ nodeState' = Unset
    /\ UNCHANGED <<rendered, justPressed>>
    /\ led_frame

\* What a gathered screen coroutine does, in order: __default_screen (266),
\* __solid_screen (283), and __blink_screen (302-312), which __not_connected
\* (358-360) runs with red.
screen_outputs(screen) ==
    IF screen[1] = "default_screen" THEN << <<"reset">> >>
    ELSE IF screen[1] = "solid_screen" THEN << <<"set_hex", screen[2]>> >>
    ELSE << <<"set_hex", screen[2]>>, <<"sleep", "delay">>, <<"reset">>,
            <<"button", "on">>, <<"sleep", "delay">>, <<"button", "off">> >>

\* A runner that gathers the stored coroutines whether connected or not.
run_LED_tasks_stored(g) ==
    [button |-> <<g.buttonTask, g.buttonArg>>, screen |-> <<g.screenTask, g.screenArg>>]

\* GPIOManagement.run_LED_tasks, lines 374-387: the coroutines it gathers.
run_LED_tasks(g) ==
    IF g.isConnected
    THEN [button |-> <<g.buttonTask, g.buttonArg>>, screen |-> <<g.screenTask, g.screenArg>>]
    ELSE [button |-> <<"button_state", FALSE>>, screen |-> <<"not_connected", "FF0000">>]

\* Lines 518-524: the start of __run_LEDs, or the top of its loop after the
\* sleep of line 527: gather the two coroutines of the moment.
run_LEDs_loop ==
    /\ Running
    /\ \/ uipc["run_LEDs"] = "init" /\ uipc["update_LEDs"] # "init"
       \/ uipc["run_LEDs"] = "sleep"
    /\ rendered' = run_LED_tasks(gpio)
    /\ uipc' = [uipc EXCEPT !["run_LEDs"] = "render"]
    /\ UNCHANGED <<gpio, cueState, nodeState, justPressed>>
    /\ led_frame

\* Line 527: the two coroutines are over.
run_LEDs_rendered ==
    /\ Running
    /\ uipc["run_LEDs"] = "render"
    /\ uipc' = [uipc EXCEPT !["run_LEDs"] = "sleep"]
    /\ rendered' = Unset
    /\ UNCHANGED <<gpio, cueState, nodeState, justPressed>>
    /\ led_frame

(***************************************************************************)
(* The display presenter: Node.__update_display                            *)
(***************************************************************************)
\* The priority of display_text when the caller gives none.
DefaultPriority == 1

\* The f-strings of lines 449, 426 and 442.
MACText == <<"MAC Addr: ", mac>>
SetupText(nodeNum, nodeName, cuePrefix) ==
    <<"Setup: ", nodeNum, ", ", nodeName, ", ", cuePrefix>> \o Padding
CueText(cueNum, action) == <<"Cue ", cueNum, ": ", action>> \o Padding

\* What the presenter leaves alone.
display_frame ==
    /\ UNCHANGED <<envVars, loopVars, gateVars, setupVars, nodeVars, histVars>>
    /\ UNCHANGED <<ledVars, isSetup>>

\* Lines 413-455: the start of __update_display, or the top of its loop after
\* the 2 s sleep (`first` is True from line 408 on and is not read before).  With setup done it gathers getters and suspends;
\* otherwise it shows the MAC address and sleeps.
update_display_loop ==
    /\ Running
    /\ \/ /\ uipc["update_display"] = "init"
          /\ Started("uptodate_check")
          /\ \A u \in {"update_LEDs", "run_LEDs"} : uipc[u] # "init"
       \/ uipc["update_display"] = "sleep"
    /\ IF SetupDone
       THEN /\ uipc' = [uipc EXCEPT !["update_display"] =
                           IF first THEN "attributes" ELSE "cue"]
            /\ UNCHANGED <<message, lcdMessage, currentPriority, lastCall>>
       ELSE /\ uipc' = [uipc EXCEPT !["update_display"] = "sleep"]
            /\ message' = MACText
            /\ display_text(message', DefaultPriority)
    /\ UNCHANGED first
    /\ display_frame

\* Lines 420-429: the three getters run; the message is formatted from their
\* results and the 8 s sleep begins.
update_display_attributes ==
    /\ Running
    /\ uipc["update_display"] = "attributes"
    /\ message' = SetupText(get_attribute_value("Node Number"),
                            get_attribute_value("Node Name"),
                            get_attribute_value("Cue Prefix"))
    /\ uipc' = [uipc EXCEPT !["update_display"] = "hold"]
    /\ UNCHANGED <<first, lcdVars>>
    /\ display_frame

\* Lines 432 and 452-455: the 8 s sleep ends.
update_display_held ==
    /\ Running
    /\ uipc["update_display"] = "hold"
    /\ first' = FALSE
    /\ display_text(message, DefaultPriority)
    /\ uipc' = [uipc EXCEPT !["update_display"] = "sleep"]
    /\ UNCHANGED message
    /\ display_frame

\* Lines 438-442: the two getters run; the message is formatted from their
\* results.
update_display_cue ==
    /\ Running
    /\ uipc["update_display"] = "cue"
    /\ message' = CueText(get_node_series_value(nodeSeries, "Cue Number"),
                          get_node_series_value(nodeSeries, "Action"))
    /\ uipc' = [uipc EXCEPT !["update_display"] = "show"]
    /\ UNCHANGED <<first, lcdVars>>
    /\ display_frame

\* Lines 452-455: the gather of line 439 is done.
update_display_show ==
    /\ Running
    /\ uipc["update_display"] = "show"
    /\ display_text(message, DefaultPriority)
    /\ uipc' = [uipc EXCEPT !["update_display"] = "sleep"]
    /\ UNCHANGED <<first, message>>
    /\ display_frame

(***************************************************************************)
(* Specifications                                                          *)
(***************************************************************************)
\* The readiness gate and the two synchronizers against a store that may
\* republish anything at any time.
NextSetup ==
    \/ uptodate_check_start
    \/ uptodate_check_poll
    \/ update_attributes_loop(AnyAttributes)
    \/ update_attributes_resume(AnyAttributes)
    \/ update_state_frame_loop(AnyStateFrame)
    \/ update_state_frame_resume(AnyStateFrame)

SpecSetup == Init /\ [][NextSetup]_vars

\* The whole node during one show.
Next ==
    \/ Press
    \/ uptodate_check_start
    \/ uptodate_check_poll
    \/ update_attributes_loop(ShowAttributeReads)
    \/ update_attributes_resume(ShowAttributeReads)
    \/ update_state_frame_loop(ShowStateFrameReads)
    \/ update_state_frame_resume(ShowStateFrameReads)
    \/ get_cue_series_start
    \/ get_cue_series_setup(CueReads)
    \/ get_cue_series_backoff
    \/ get_cue_series_loop(CueReads)
    \/ get_cue_series_resume(CueReads)
    \/ get_button_input_start
    \/ get_button_input_loop
    \/ get_button_input_window_end
    \/ update_node_series_start
    \/ update_node_series_setup
    \/ update_node_series_loop
    \/ update_node_series_resume
    \/ update_node_series_publish
    \/ update_node_series_publish_fails
    \/ run_tasks_handler
    \/ run_tasks_cleanup

Spec == Init /\ [][Next]_vars

\* The node with the display presenter, during the first two cues of the show
\* of the LEDs, whose configuration may be late; a publish may fail.
InitDisplay == InitWith({"update_display"}) /\ isSetup = TRUE

NextDisplay ==
    \/ Press
    \/ uptodate_check_start
    \/ uptodate_check_poll /\ newServerTime' # None
    \/ update_attributes_loop({None, ShowAttributes})
    \/ update_attributes_resume({None, ShowAttributes})
    \/ update_state_frame_loop({LEDStateFrame})
    \/ update_state_frame_resume({LEDStateFrame})
    \/ get_cue_series_start
    \/ get_cue_series_setup(OpeningCueReads) /\ ShowAdvances
    \/ get_cue_series_loop(OpeningCueReads) /\ ShowAdvances
    \/ get_cue_series_resume(OpeningCueReads) /\ ShowAdvances
    \/ get_button_input_start
    \/ get_button_input_loop
    \/ get_button_input_window_end
    \/ update_node_series_start
    \/ update_node_series_setup
    \/ update_node_series_loop
    \/ update_node_series_resume
    \/ update_node_series_publish
    \/ update_node_series_publish_fails
    \/ run_tasks_handler
    \/ run_tasks_cleanup
    \/ update_display_loop
    \/ update_display_attributes
    \/ update_display_held
    \/ update_display_cue
    \/ update_display_show

SpecDisplay == InitDisplay /\ [][NextDisplay]_vars

\* The display alone, with callers that call its two methods with any text
\* and any priority; the display may have failed to set up (lines 23-37).
MaxPriority == 2
Priorities == 0..MaxPriority

\* Texts of up to MaxTextLen cells, each alone and followed by ' '*32.
MaxTextLen == 2
LCDTexts ==
    LET short == UNION {[1..n -> {"a", "b"}] : n \in 0..MaxTextLen}
    IN  short \cup {t \o Padding : t \in short}

lcd_frame ==
    /\ UNCHANGED <<envVars, loopVars, gateVars, setupVars, nodeVars, histVars>>
    /\ UNCHANGED <<uipc, ledVars, isSetup, displayVars>>

LCD_display_text(text, priority) ==
    /\ display_text(text, priority)
    /\ lcd_frame

LCD_change_priority(priority) ==
    /\ change_priority(priority)
    /\ UNCHANGED <<lcdMessage, lastCall>>
    /\ lcd_frame

InitLCD == InitWith({}) /\ isSetup \in BOOLEAN

NextLCD ==
    \/ \E text \in LCDTexts, priority \in Priorities : LCD_display_text(text, priority)
    \/ \E priority \in Priorities : LCD_change_priority(priority)

SpecLCD == InitLCD /\ [][NextLCD]_vars

\* The node with the coroutine that selects the LEDs, during a show whose
\* configuration is published from the start, whose cues only advance, whose
\* clock is always there to read and whose publishes all succeed.
InitLED == InitWith({"update_LEDs"}) /\ isSetup = TRUE

NextLED ==
    \/ Press
    \/ uptodate_check_start
    \/ uptodate_check_poll /\ newServerTime' # None
    \/ update_attributes_loop({ShowAttributes})
    \/ update_attributes_resume({ShowAttributes})
    \/ update_state_frame_loop({LEDStateFrame})
    \/ update_state_frame_resume({LEDStateFrame})
    \/ get_cue_series_start
    \/ get_cue_series_setup(LEDCueReads) /\ ShowAdvances
    \/ get_cue_series_loop(LEDCueReads) /\ ShowAdvances
    \/ get_cue_series_resume(LEDCueReads) /\ ShowAdvances
    \/ get_button_input_start
    \/ get_button_input_loop
    \/ get_button_input_window_end
    \/ update_node_series_start
    \/ update_node_series_setup
    \/ update_node_series_loop
    \/ update_node_series_resume
    \/ update_node_series_publish
    \/ update_LEDs_loop
    \/ update_LEDs_read
    \/ update_LEDs_select

SpecLED == InitLED /\ [][NextLED]_vars

\* The same node with the coroutine that runs the LEDs too, during the first
\* two cues of that show.
InitLEDRunner == InitWith({"update_LEDs", "run_LEDs"}) /\ isSetup = TRUE

NextLEDRunner ==
    \/ Press
    \/ uptodate_check_start
    \/ uptodate_check_poll /\ newServerTime' # None
    \/ update_attributes_loop({ShowAttributes})
    \/ update_attributes_resume({ShowAttributes})
    \/ update_state_frame_loop({LEDStateFrame})
    \/ update_state_frame_resume({LEDStateFrame})
    \/ get_cue_series_start
    \/ get_cue_series_setup(OpeningCueReads) /\ ShowAdvances
    \/ get_cue_series_loop(OpeningCueReads) /\ ShowAdvances
    \/ get_cue_series_resume(OpeningCueReads) /\ ShowAdvances
    \/ get_button_input_start
    \/ get_button_input_loop
    \/ get_button_input_window_end
    \/ update_node_series_start
    \/ update_node_series_setup
    \/ update_node_series_loop
    \/ update_node_series_resume
    \/ update_node_series_publish
    \/ update_LEDs_loop
    \/ update_LEDs_read
    \/ update_LEDs_select
    \/ run_LEDs_loop
    \/ run_LEDs_rendered

SpecLEDRunner == InitLEDRunner /\ [][NextLEDRunner]_vars

\* The node with the coroutine that selects the LEDs, during the first two
\* cues of that show, when a publish may fail and run_tasks handles it.
NextLEDFailure ==
    \/ Press
    \/ uptodate_check_start
    \/ uptodate_check_poll /\ newServerTime' # None
    \/ update_attributes_loop({ShowAttributes})
    \/ update_attributes_resume({ShowAttributes})
    \/ update_state_frame_loop({LEDStateFrame})
    \/ update_state_frame_resume({LEDStateFrame})
    \/ get_cue_series_start
    \/ get_cue_series_setup(OpeningCueReads) /\ ShowAdvances
    \/ get_cue_series_loop(OpeningCueReads) /\ ShowAdvances
    \/ get_cue_series_resume(OpeningCueReads) /\ ShowAdvances
    \/ get_button_input_start
    \/ get_button_input_loop
    \/ get_button_input_window_end
    \/ update_node_series_start
    \/ update_node_series_setup
    \/ update_node_series_loop
    \/ update_node_series_resume
    \/ update_node_series_publish
    \/ update_node_series_publish_fails
    \/ run_tasks_handler
    \/ run_tasks_cleanup
    \/ update_LEDs_loop
    \/ update_LEDs_read
    \/ update_LEDs_select

SpecLEDFailure == InitLED /\ [][NextLEDFailure]_vars

\* The node without the coroutines of the LEDs and of the display, during the
\* first two cues of that show, when every publish succeeds.
NextPress ==
    \/ Press
    \/ uptodate_check_start
    \/ uptodate_check_poll
    \/ update_attributes_loop({ShowAttributes})
    \/ update_attributes_resume({ShowAttributes})
    \/ update_state_frame_loop({LEDStateFrame})
    \/ update_state_frame_resume({LEDStateFrame})
    \/ get_cue_series_start
    \/ get_cue_series_setup(OpeningCueReads) /\ ShowAdvances
    \/ get_cue_series_loop(OpeningCueReads) /\ ShowAdvances
    \/ get_cue_series_resume(OpeningCueReads) /\ ShowAdvances
    \/ get_button_input_start
    \/ get_button_input_loop
    \/ get_button_input_window_end
    \/ update_node_series_start
    \/ update_node_series_setup
    \/ update_node_series_loop
    \/ update_node_series_resume
    \/ update_node_series_publish

\* The event loop runs every coroutine that is ready to run, and every sleep
\* ends: each coroutine is treated fairly.  The server's clock advances again
\* and again, so that polls that find the gate ready keep happening.
SpecPress ==
    /\ Init
    /\ [][NextPress]_vars
    /\ WF_vars(uptodate_check_start)
    /\ WF_vars(uptodate_check_poll)
    /\ SF_vars(uptodate_check_poll /\ GateReady')
    /\ WF_vars(update_attributes_loop({ShowAttributes})
                  \/ update_attributes_resume({ShowAttributes}))
    /\ WF_vars(update_state_frame_loop({LEDStateFrame})
                  \/ update_state_frame_resume({LEDStateFrame}))
    /\ WF_vars(\/ get_cue_series_start
               \/ get_cue_series_setup(OpeningCueReads) /\ ShowAdvances
               \/ get_cue_series_loop(OpeningCueReads) /\ ShowAdvances
               \/ get_cue_series_resume(OpeningCueReads) /\ ShowAdvances)
    /\ WF_vars(\/ get_button_input_start
               \/ get_button_input_loop
               \/ get_button_input_window_end)
    /\ WF_vars(\/ update_node_series_start
               \/ update_node_series_setup
               \/ update_node_series_loop
               \/ update_node_series_resume
               \/ update_node_series_publish)

(***************************************************************************)
(* Readiness gate                                                          *)
(***************************************************************************)
\* The poll just made read a present timestamp that differs from the one recorded.
ObservedChange == newServerTime' # None /\ newServerTime' # oldServerTime

\* C1: after every poll of __uptodate_check the readiness signal is ready if
\* and only if that poll read a present clock value different from lastClock
\* (so one stale or absent read puts it back to not-ready, and the reads
\* t0, t0, t1 give not-ready, not-ready, ready); nothing but a poll changes it.
C1_ReadyIffPollObservedChange ==
    [][ /\ uptodate_check_poll => (GateReady' <=> ObservedChange)
        /\ ~uptodate_check_poll => (GateReady' <=> GateReady) ]_vars

\* The gate was ready, and the poll that followed read the recorded timestamp
\* again: it is back to not-ready, on a fresh future.
C1_Witness ==
    /\ pc["uptodate_check"] = "sleep"
    /\ uptodate_future # 0
    /\ ~GateReady
    /\ newServerTime = oldServerTime

\* A coroutine is suspended on a future that is not the current one and will
\* never get a result.
Orphaned(t) ==
    pc[t] = "waiting" /\ awaiting[t] # uptodate_future /\ ~futDone[awaiting[t]]

\* C2: there is one current future, pending or completed; a pending one is
\* never replaced, so no suspended coroutine is left on a future that cannot
\* complete, and all of them are woken when the gate becomes ready; a fresh
\* pending future is made only by a stale poll that finds the current one
\* completed.
C2_NoLostWakeup ==
    /\ [](/\ uptodate_future \in FutId
          /\ \A t \in GateWaiters : ~Orphaned(t))
    /\ [][ /\ ~GateReady => uptodate_future' = uptodate_future
           /\ (~GateReady /\ GateReady') =>
                 \A t \in GateWaiters : pc[t] = "waiting" => Woken(t)'
           /\ uptodate_future' # uptodate_future =>
                 /\ GateReady /\ ~GateReady'
                 /\ uptodate_check_poll /\ ~ObservedChange ]_vars

\* In a later generation of the future, the cue tracker and the node state
\* machine were both suspended on the pending future when it completed.
C2_Witness ==
    /\ uptodate_future # 0
    /\ Woken("get_cue_series")
    /\ Woken("update_node_series")
    /\ awaiting["get_cue_series"] = uptodate_future
    /\ awaiting["update_node_series"] = uptodate_future

(***************************************************************************)
(* Node state machine                                                      *)
(***************************************************************************)
\* A step of __update_node_series that evaluates lines 349-385.
NodeEvaluates ==
    /\ \/ update_node_series_setup
       \/ update_node_series_loop
       \/ update_node_series_resume
    /\ pc'["update_node_series"] # "waiting"

\* The tracked cue series holds a cue.
CuePresent == cueSeries # Unset /\ DOMAIN cueSeries # {}

\* The evaluation finds a present cue that is materially new.
NewCueArrives == NodeEvaluates /\ CuePresent /\ MateriallyNew(nodeSeries)

\* The cached table has a row for the state of the tracked cue.
HasEntry == cueSeries["Cue State"] \in DOMAIN stateFrame

\* The node series is the copy of the tracked cue, with the initial node
\* state of its table row and the node number of the attributes.
AdoptedRecord ==
    /\ HasEntry
    /\ nodeSeries' =
          SetItem(SetItem(cueSeries, "Node State",
                          stateFrame[cueSeries["Cue State"]]["Initial Node State"]),
                  "Node Number", attributes_dict["Node Number"])

\* The record sent in a cycle that adopted a cue is the adopted one, with the
\* initial node state of its row.
AdoptedRecordSent ==
    (branch = "adopt" /\ sent # << >>) =>
        /\ sent[1]["Cue Number"] = nodeSeries["Cue Number"]
        /\ sent[1]["Cue State"] = nodeSeries["Cue State"]
        /\ sent[1]["Node Number"] = attributes_dict["Node Number"]
        /\ sent[1]["Node State"] =
              stateFrame[sent[1]["Cue State"]]["Initial Node State"]

\* C3 as stated: whenever a cycle is evaluated with a present cue and a node
\* record that is absent or differs in Cue Number or Cue State, the node record
\* becomes the adopted copy and the flags become (changeRequested = false,
\* atInitialPhase = true).
C3_Original ==
    [][ NewCueArrives => (AdoptedRecord /\ ~changeState' /\ initialState') ]_vars

\* C3: whenever a cycle is evaluated with a present cue whose Cue State has a
\* row in the cached transition table, and the node record is absent or differs
\* from the cue in Cue Number or Cue State, the node record becomes a copy of
\* the cue with Node State = the row's initial state and Node Number from the
\* attributes, the flags become (changeRequested = false, atInitialPhase =
\* true), and the record published for that cycle carries that initial state.
C3_IdentityRule ==
    /\ [][ (NewCueArrives /\ HasEntry) =>
             (AdoptedRecord /\ ~changeState' /\ initialState'
                 /\ pc'["update_node_series"] = "debounce") ]_vars
    /\ []AdoptedRecordSent

\* A second cue was adopted over the first one and its record was published.
C3_Witness ==
    /\ branch = "adopt"
    /\ pc["update_node_series"] = "sleep"
    /\ Len(sent) = 1
    /\ sent[1]["Cue Number"] = "13"
    /\ sent[1]["Node State"] = "None"
    /\ ~changeState /\ initialState

\* An evaluation that assigns the final node state.
FinalStep == NodeEvaluates /\ branch' = "final"

\* An evaluation that adopts the tracked cue.
AdoptStep == NodeEvaluates /\ branch' = "adopt"

\* C4: between two adoptions the final node state is assigned at most once,
\* only in a cycle that finds changeRequested and atInitialPhase both true and
\* the cue not materially new, and atInitialPhase is false right after it.
C4_FinalPhaseRule ==
    /\ [](finalsSinceAdopt <= 1)
    /\ [][ FinalStep =>
             /\ changeState /\ initialState
             /\ CuePresent /\ ~MateriallyNew(nodeSeries)
             /\ ~initialState'
             /\ nodeSeries' =
                   SetItem(nodeSeries, "Node State",
                           stateFrame[nodeSeries["Cue State"]]["Final Node State"]) ]_vars

\* The final state was assigned and published, the request is still up, and a
\* later cycle found nothing to do.
C4_Witness ==
    /\ finalsSinceAdopt = 1
    /\ branch = "idle"
    /\ changeState /\ ~initialState
    /\ nodeSeries["Node State"] = "Ready"

\* The cycle is over: the coroutine is in the sleep of line 400 or beyond.
CycleOver == pc["update_node_series"] \in {"sleep", "waiting"}

\* The phase of the node state machine.
Phase ==
    IF DOMAIN nodeSeries = {} THEN "NoCue"
    ELSE IF initialState THEN "InitialPhase"
    ELSE "FinalPhase"

\* The node series holds the same cue before and after the step.
SameCue ==
    /\ DOMAIN nodeSeries # {}
    /\ \A attribute \in {"Cue Number", "Cue State"} :
          nodeSeries'[attribute] = nodeSeries[attribute]

\* C5: the phase only moves NoCue -> InitialPhase -> FinalPhase, back to
\* InitialPhase on a new cue; atInitialPhase goes from false to true only by
\* the adoption of a materially new cue, FinalPhase is entered only from the
\* InitialPhase of the same cue, and a present node record never becomes
\* absent again.
C5_PhaseOrder ==
    [][ /\ Phase' # Phase =>
             <<Phase, Phase'>> \in {<<"NoCue", "InitialPhase">>,
                                    <<"InitialPhase", "FinalPhase">>,
                                    <<"FinalPhase", "InitialPhase">>}
        /\ (~initialState /\ initialState') =>
             (AdoptStep /\ CuePresent /\ MateriallyNew(nodeSeries))
        /\ (initialState /\ ~initialState') => (FinalStep /\ SameCue)
        /\ DOMAIN nodeSeries # {} => DOMAIN nodeSeries' # {} ]_vars

\* The node is in the final phase of a "Go" cue, published.
C5_Witness ==
    /\ Phase = "FinalPhase"
    /\ branch = "final"
    /\ CycleOver
    /\ nodeSeries["Cue State"] = "Go"
    /\ nodeSeries["Node State"] = "Done"

\* C6: a cycle that marked the record updated (adoption or final phase)
\* publishes it exactly once, any other cycle not at all, and a published
\* record carries Timestamp = lastClock of the gate at the moment of publishing.
C6_PublishRule ==
    /\ [](/\ Len(sent) <= 1
          /\ sent # << >> => branch \in {"adopt", "final"}
          /\ pc["update_node_series"] = "debounce" =>
                (sent = << >> /\ branch \in {"adopt", "final"})
          /\ CycleOver => (Len(sent) = 1 <=> branch \in {"adopt", "final"}))
    /\ [][ sent' \notin {sent, << >>} =>
             /\ sent' = <<nodeSeries'>>
             /\ nodeSeries' = SetItem(nodeSeries, "Timestamp", oldServerTime)
             /\ sent'[1]["Timestamp"] = oldServerTime' ]_vars

\* A final-phase record was published with a timestamp later than the one the
\* adoption of the same cue was published with.
C6_Witness ==
    /\ branch = "final"
    /\ CycleOver
    /\ Len(sent) = 1
    /\ sent[1]["Timestamp"] = Clock(2)
    /\ sent[1]["Node State"] = "Ready"

\* C7: a cycle evaluated while the tracked cue is absent changes nothing: the
\* node record, the flags and the pressed flag of the hardware stay as they
\* are and nothing is published.
C7_AbsentCueNoChange ==
    /\ [][ (NodeEvaluates /\ cueSeries # Unset /\ DOMAIN cueSeries = {}) =>
             /\ UNCHANGED <<nodeSeries, changeState, initialState, isPressed>>
             /\ sent' = << >>
             /\ pc'["update_node_series"] = "sleep" ]_vars
    /\ [](branch = "absent" => (sent = << >> /\ DOMAIN nodeSeries = {}))

\* A cycle ran with no cue while a press was pending and requested.
C7_Witness ==
    /\ branch = "absent"
    /\ pc["update_node_series"] = "sleep"
    /\ changeState /\ isPressed /\ initialState

\* C8: the adoption of a new cue clears changeRequested and the sticky
\* pressed flag in the same step, so the final state of the new cue is only
\* ever assigned after a press that was registered after the adoption.
C8_StalePressDiscarded ==
    /\ [][ AdoptStep => (~changeState' /\ ~isPressed') ]_vars
    /\ [][ FinalStep => pressedSinceAdopt ]_vars
    /\ [](changeState => pressedSinceAdopt)

\* A press was pending and requested when the new cue was adopted; the
\* adoption has been published and the node is still at the initial state.
C8_Witness ==
    /\ branch = "adopt"
    /\ justPressed
    /\ ~changeState /\ ~isPressed /\ ~pressedSinceAdopt
    /\ Len(sent) = 1
    /\ sent[1]["Node State"] = "None"

(***************************************************************************)
(* Synchronizers                                                           *)
(***************************************************************************)
\* A step of a synchronizer that fetches from the store.
AttributesFetched ==
    /\ \/ update_attributes_loop(AnyAttributes)
       \/ update_attributes_resume(AnyAttributes)
    /\ pc'["update_attributes"] # "waiting"

StateFrameFetched ==
    /\ \/ update_state_frame_loop(AnyStateFrame)
       \/ update_state_frame_resume(AnyStateFrame)
    /\ pc'["update_state_frame"] # "waiting"

\* C9: once a synchronizer has succeeded its loop has ended, it never
\* fetches again and its cache never changes, whatever the store holds later.
C9_CachesWriteOnce ==
    /\ [](/\ attributes_dict # Unset <=> pc["update_attributes"] = "done"
          /\ stateFrame # Unset <=> pc["update_state_frame"] = "done")
    /\ [][ /\ attributes_dict # Unset =>
                /\ attributes_dict' = attributes_dict
                /\ all_attributes' = all_attributes
                /\ pc'["update_attributes"] = "done"
                /\ ~AttributesFetched
           /\ stateFrame # Unset =>
                /\ stateFrame' = stateFrame
                /\ serverFrame' = serverFrame
                /\ pc'["update_state_frame"] = "done"
                /\ ~StateFrameFetched ]_vars

\* Both caches are filled, from frames of different shows, and the gate
\* has gone through a later generation since.
C9_Witness ==
    /\ SetupDone
    /\ attributes_dict = AttrRowA
    /\ stateFrame = OtherStateFrame
    /\ uptodate_future # 0
    /\ GateReady

\* The fetch of the step found no record, or no row for this node.
AttributesLookupFailed ==
    AttributesFetched /\ (all_attributes' = None \/ mac \notin DOMAIN all_attributes')

StateFrameLookupFailed == StateFrameFetched /\ serverFrame' = None

\* C10: a failed lookup in a synchronizer never ends the task or reaches the
\* failure handler of run_tasks; it leaves the cache unset and the synchronizer
\* in its back-off, from which it can always go round the loop again.
C10_FailedLookupRetried ==
    /\ [](/\ orch = "gather"
          /\ pc["update_attributes"] # "failed"
          /\ pc["update_state_frame"] # "failed"
          /\ pc["update_attributes"] = "backoff" =>
                (attributes_dict = Unset /\ ENABLED update_attributes_loop(AnyAttributes))
          /\ pc["update_state_frame"] = "backoff" =>
                (stateFrame = Unset /\ ENABLED update_state_frame_loop(AnyStateFrame)))
    /\ [][ /\ AttributesLookupFailed =>
                /\ pc'["update_attributes"] = "backoff"
                /\ attributes_dict' = Unset
                /\ orch' = orch
           /\ StateFrameLookupFailed =>
                /\ pc'["update_state_frame"] = "backoff"
                /\ stateFrame' = Unset
                /\ orch' = orch ]_vars

\* The attribute synchronizer is backing off after a frame without a row for
\* this node, the other one after an absent record, in a later generation of
\* the gate.
C10_Witness ==
    /\ pc["update_attributes"] = "backoff"
    /\ all_attributes = (otherMac :> AttrRowB)
    /\ pc["update_state_frame"] = "backoff"
    /\ serverFrame = None
    /\ uptodate_future # 0

(***************************************************************************)
(* Setup gating and the cue tracker                                        *)
(***************************************************************************)
\* A step of __get_cue_series that fetches from the store.
CueFetched ==
    /\ \/ get_cue_series_start
       \/ get_cue_series_setup(CueReads)
       \/ get_cue_series_loop(CueReads)
       \/ get_cue_series_resume(CueReads)
    /\ pc'["get_cue_series"] \in {"sleep", "backoff"}

\* A step of __get_button_input that samples the pressed flag.
ButtonSampled == get_button_input_loop

\* The coroutines that await self.__setup_tasks.
SetupWaiters == {"get_cue_series", "get_button_input", "update_node_series"}

\* C11: until both synchronizers have succeeded the cue tracker fetches
\* nothing, the node state machine evaluates and publishes nothing and the
\* button monitor samples nothing; each of them waits for setup once, before
\* its loop, and never again.
C11_SetupGating ==
    /\ [][ (\/ CueFetched
            \/ NodeEvaluates
            \/ update_node_series_publish
            \/ update_node_series_publish_fails
            \/ ButtonSampled) => SetupDone ]_vars
    /\ [](~SetupDone =>
            /\ \A t \in SetupWaiters : pc[t] \in {"init", "await_setup"}
            /\ all_cue_nums = Unset /\ cueSeries = Unset
            /\ DOMAIN nodeSeries = {} /\ sent = << >>
            /\ ~changeState /\ ~justPressed)
    /\ [][ \A t \in SetupWaiters :
             pc'[t] = "await_setup" => pc[t] \in {"init", "await_setup"} ]_vars

\* The gate is ready and a press is pending, but the attribute synchronizer is
\* still backing off: the three coroutines are held at their wait for setup.
C11_Witness ==
    /\ ~SetupDone
    /\ GateReady
    /\ isPressed
    /\ pc["update_state_frame"] = "done"
    /\ pc["update_attributes"] = "backoff"
    /\ \A t \in SetupWaiters : pc[t] = "await_setup"

\* The prefix of this node is in the table the step fetched.
CueHit ==
    /\ all_cue_nums' # None
    /\ attributes_dict["Cue Prefix"] \in DOMAIN all_cue_nums'

\* C12: after a fetch that finds this node's cue prefix the tracked cue is
\* exactly the remote entry for it; after a fetch that misses (no table, or no
\* such prefix) the tracked cue is what it was or is absent, and the miss
\* neither ends the tracker nor reaches the failure handler.
C12_CueTrackerResult ==
    /\ [][ CueFetched =>
             IF CueHit
             THEN /\ cueSeries' = all_cue_nums'[attributes_dict["Cue Prefix"]]
                  /\ pc'["get_cue_series"] = "sleep"
             ELSE /\ cueSeries' \in {cueSeries, EmptySeries}
                  /\ cueSeries' # Unset
                  /\ pc'["get_cue_series"] = "backoff"
                  /\ orch' = orch ]_vars
    /\ [](pc["get_cue_series"] # "failed")

\* A cue was tracked, another one replaced it, and the fetch after that
\* missed: the tracker backs off with the second cue kept.
C12_Witness ==
    /\ pc["get_cue_series"] = "backoff"
    /\ all_cue_nums = None
    /\ cueSeries = Cue("13", "Standby", "Hold")
    /\ DOMAIN nodeSeries # {}
    /\ nodeSeries["Cue Number"] = "12"

(***************************************************************************)
(* The LEDs                                                                *)
(***************************************************************************)
\* The indicator that a screen coroutine and its argument show: default_screen
\* takes no argument, solid_screen holds a colour, blink_screen and
\* __not_connected blink one.
Indicator(screen) ==
    IF screen[1] = "default_screen" THEN "Default"
    ELSE IF screen = <<"solid_screen", "FFFF00">> THEN "Standby"
    ELSE IF screen = <<"blink_screen", "FFFF00">> THEN "MultipleStandbys"
    ELSE IF screen = <<"solid_screen", "00FF00">> THEN "Go"
    ELSE IF screen = <<"not_connected", "FF0000">> THEN "Disconnected"
    ELSE "Other"

\* The button light that a button coroutine and its argument show.
ButtonLight(button) ==
    IF button[1] = "blink_button" THEN "Blinking"
    ELSE IF button[2] THEN "Solid"
    ELSE "Off"

\* The selection stored in the GPIO object g.
Selection(g) ==
    [ indicator |-> Indicator(<<g.screenTask, g.screenArg>>),
      button |-> ButtonLight(<<g.buttonTask, g.buttonArg>>) ]

\* What the runner has gathered and is showing.
Rendering ==
    [ indicator |-> Indicator(rendered.screen), button |-> ButtonLight(rendered.button) ]

\* C13: a cycle of __update_LEDs that finds the gate not ready marks the GPIO
\* object not connected, touches nothing else of it and goes to sleep; and
\* whenever the runner gathers while the object is not connected, it shows the
\* button light Off and the Disconnected indicator, whatever is stored.
C13_DisconnectedCase ==
    /\ [][update_LEDs_loop /\ ~GateReady =>
            /\ gpio' = [gpio EXCEPT !.isConnected = FALSE]
            /\ uipc'["update_LEDs"] = "sleep"]_vars
    /\ [][run_LEDs_loop /\ ~gpio.isConnected =>
            Rendering' = [indicator |-> "Disconnected", button |-> "Off"]]_vars

\* The runner shows Disconnected and Off while the selection stored while the
\* node was connected is Go and Blinking, and the button has been pressed.
C13_Witness ==
    /\ rendered # Unset
    /\ Rendering = [indicator |-> "Disconnected", button |-> "Off"]
    /\ ~gpio.isConnected
    /\ Selection(gpio) = [indicator |-> "Go", button |-> "Blinking"]
    /\ justPressed

\* A cycle of __update_LEDs that found the gate ready ends: it selects for the
\* cue state and node state it read and for justPressed as it is now.
ArbiterSelects == update_LEDs_select

\* C14: when the node state read is present and not "None", the selection after
\* the cycle is the Default indicator, with the button light Solid if the cue
\* state read is "Go" and justPressed is true, and Off otherwise.
C14_NodeStateLockedIn ==
    [][ArbiterSelects /\ nodeState # "None" =>
        /\ gpio.isConnected
        /\ Selection(gpio') =
              [ indicator |-> "Default",
                button |-> IF cueState = "Go" /\ justPressed THEN "Solid" ELSE "Off" ]]_vars

\* After the final phase of a pressed "Go" cue: the node state is "Done", and
\* the selection is Default and Solid where it was Go and Blinking before.
C14_Witness ==
    /\ get_node_series_value(nodeSeries, "Node State") = "Done"
    /\ get_node_series_value(nodeSeries, "Cue State") = "Go"
    /\ gpio.screenArg = "00FF00"
    /\ Selection(gpio) = [indicator |-> "Default", button |-> "Solid"]

\* C15: when the node state read is "None", the cue state "Go" selects the Go
\* indicator with the button light Blinking, "Standby" the Standby indicator
\* and "Multiple Standbys" the MultipleStandbys indicator, both with the
\* button light Off.
C15_NodeSoliciting ==
    [][ArbiterSelects /\ nodeState = "None" =>
        /\ gpio.isConnected
        /\ cueState = "Go" =>
              Selection(gpio') = [indicator |-> "Go", button |-> "Blinking"]
        /\ cueState = "Standby" =>
              Selection(gpio') = [indicator |-> "Standby", button |-> "Off"]
        /\ cueState = "Multiple Standbys" =>
              Selection(gpio') = [indicator |-> "MultipleStandbys", button |-> "Off"]]_vars

\* The MultipleStandbys indicator has been selected for the cue of the record.
C15_Witness ==
    /\ get_node_series_value(nodeSeries, "Node State") = "None"
    /\ get_node_series_value(nodeSeries, "Cue State") = "Multiple Standbys"
    /\ Selection(gpio) = [indicator |-> "MultipleStandbys", button |-> "Off"]
    /\ gpio.isConnected
    /\ uipc["update_LEDs"] = "sleep"

\* The cue states for which the node asks for attention.
Soliciting == {"Go", "Standby", "Multiple Standbys"}

\* C16: when the node state read is "None" (also when the record has none) and
\* the cue state read is none of "Go", "Standby" and "Multiple Standbys", the
\* selection after the cycle is the Default indicator with the button light
\* Off, whatever was selected before.
C16_NothingToShow ==
    [][ArbiterSelects /\ nodeState = "None" /\ cueState \notin Soliciting =>
        Selection(gpio') = [indicator |-> "Default", button |-> "Off"]]_vars

\* The selection with which a connected cycle of __update_LEDs ends when no
\* cycle has selected anything before it: the GPIO object is as constructed.
FirstSelection(cue, node, pressed) ==
    Selection(led_select(connected(GPIOManagement, TRUE), cue, node, pressed))

\* C17: the selection after a connected cycle depends only on the cue state and
\* node state read and on justPressed: whatever earlier cycles have selected,
\* the cycle ends with the selection that a first cycle reading the same
\* values ends with.
C17_ArbiterDeterminism ==
    [][ArbiterSelects =>
        Selection(gpio') = FirstSelection(cueState, nodeState, justPressed)]_vars

(***************************************************************************)
(* The display                                                             *)
(***************************************************************************)
\* C18: a call display_text(text, p) that changes the message shown or the
\* latched priority has p at or above the priority latched before, and latches
\* p; so no call of display_text lowers the latch, and a step that lowers it
\* is a call of change_priority.
C18_PriorityLatch ==
    /\ [][\A text \in LCDTexts, p \in Priorities :
            LCD_display_text(text, p) =>
              /\ lcdMessage' # lcdMessage \/ currentPriority' # currentPriority =>
                    p >= currentPriority /\ currentPriority' = p
              /\ currentPriority' >= currentPriority]_vars
    /\ [][currentPriority' < currentPriority =>
            \E p \in Priorities : LCD_change_priority(p)]_vars

\* A text longer than the display is shown, cut to its width, with the highest
\* priority latched.
C18_Witness ==
    /\ isSetup
    /\ currentPriority = MaxPriority
    /\ Len(lcdMessage) = Width
    /\ lcdMessage[1] = "b"

\* The presenter calls display_text: line 452, reached from line 449, from
\* line 432 or from line 442.
PresenterShows ==
    \/ update_display_loop /\ ~SetupDone
    \/ update_display_held
    \/ update_display_show

\* A call of display_text with a priority up to the default one that changes
\* the message shown or the latched priority.
LowPriorityCallChanges ==
    \E text \in LCDTexts, p \in 0..DefaultPriority :
        /\ LCD_display_text(text, p)
        /\ <<lcdMessage, currentPriority>>' # <<lcdMessage, currentPriority>>

\* The handler of run_tasks has shown its message.
ErrorShown == orch \in {"sleeping", "returned"}

\* C19: while the priority of the error message is latched, no call of
\* display_text with priority 1 or lower can change the message or the latch,
\* and no call of the presenter does; once the handler of run_tasks has shown
\* the error message, that message stays on the display with its priority.
C19_ErrorMessageStays ==
    /\ [](currentPriority = ErrorPriority => ~ENABLED LowPriorityCallChanges)
    /\ [][currentPriority = ErrorPriority /\ PresenterShows =>
            UNCHANGED <<lcdMessage, currentPriority>>]_vars
    /\ [](ErrorShown => lcdMessage = ErrorText /\ currentPriority = ErrorPriority)

\* The error message is on the display, and the last call of display_text is
\* the presenter's, with the text of a cue.
C19_Witness ==
    /\ orch = "sleeping"
    /\ lcdMessage = ErrorText
    /\ lastCall # Unset
    /\ lastCall.priority = DefaultPriority
    /\ lastCall.text = CueText("12", "Hold")

\* C20: until the two setup coroutines have returned, every call of the
\* presenter shows the MAC address with priority 0, and the priority latched
\* when they have returned is 0.
C20_MACAddressPriority ==
    /\ [][PresenterShows /\ ~SetupDone =>
            lastCall' = [text |-> MACText, priority |-> 0]]_vars
    /\ [][~SetupDone /\ SetupDone' => currentPriority' = 0]_vars

\* C21: the presenter's first cycle that finds the setup coroutines returned,
\* and no other cycle, shows the text "Setup: ..."; that text is on the display
\* while the cycle holds for 8 s; every later cycle shows a text "Cue ...",
\* and the MAC address is not shown again.
C21_DisplaySequence ==
    /\ [](uipc["update_display"] = "hold" /\ currentPriority < ErrorPriority =>
            lcdMessage = Take(message, Width) /\ message[1] = "Setup: ")
    /\ [][update_display_held => first /\ lastCall'.text[1] = "Setup: "]_vars
    /\ [][update_display_show => ~first /\ lastCall'.text[1] = "Cue "]_vars
    /\ [][PresenterShows /\ SetupDone => update_display_held \/ update_display_show]_vars

C23_PressWindow ==
    /\ [](justPressed <=> pc["get_button_input"] = "window")
    /\ [][get_button_input_loop /\ changeState =>
            /\ UNCHANGED <<changeState, justPressed>>
            /\ pc'["get_button_input"] = "sleep"]_vars
    /\ [][get_button_input_loop /\ ~changeState =>
            /\ changeState' = isPressed
            /\ justPressed' = isPressed]_vars
    /\ [][~justPressed /\ justPressed' =>
            /\ get_button_input_loop
            /\ ~changeState /\ changeState' /\ isPressed]_vars
    /\ [][justPressed /\ ~justPressed' => get_button_input_window_end]_vars

\* A window has ended with the change still requested and the press flag
\* still set: the monitor's passes now find changeRequested true.
C23_Witness ==
    /\ pc["get_button_input"] = "sleep"
    /\ changeState /\ isPressed
    /\ ~justPressed
    /\ pressedSinceAdopt

\* C24: a read through a getter returns the stored value, or the text 'None'
\* when the index is missing, and the coroutine that reads goes on with it:
\* once setup is complete the attributes are cached with all three keys, and
\* the presenter's reads of them build the summary from the cached values;
\* its reads of the node series build the cue line from the fields of the
\* series, with 'None' for each field the series lacks; the adoption reads
\* the node number from the cache. A presenter waiting for either group of
\* getters is never held up while the node runs.
C24_SentinelGetters ==
    /\ [](SetupDone =>
            /\ attributes_dict # Unset
            /\ {"Node Number", "Node Name", "Cue Prefix"} \subseteq DOMAIN attributes_dict)
    /\ [][(uipc["update_display"] = "attributes" /\ uipc'["update_display"] = "hold") =>
            /\ SetupDone
            /\ message' = SetupText(attributes_dict["Node Number"],
                                    attributes_dict["Node Name"],
                                    attributes_dict["Cue Prefix"])]_vars
    /\ [][(uipc["update_display"] = "cue" /\ uipc'["update_display"] = "show") =>
            message' = CueText(IF "Cue Number" \in DOMAIN nodeSeries
                               THEN nodeSeries["Cue Number"] ELSE "None",
                               IF "Action" \in DOMAIN nodeSeries
                               THEN nodeSeries["Action"] ELSE "None")]_vars
    /\ [][AdoptStep => SetupDone /\ nodeSeries'["Node Number"] = attributes_dict["Node Number"]]_vars
    /\ [](Running /\ uipc["update_display"] = "attributes" => ENABLED update_display_attributes)
    /\ [](Running /\ uipc["update_display"] = "cue" => ENABLED update_display_cue)

\* The presenter has read the node series before any cue was adopted and
\* shows the cue line made of the two sentinels.
C24_Witness ==
    /\ nodeSeries = EmptySeries
    /\ uipc["update_display"] = "sleep"
    /\ message = CueText("None", "None")
    /\ lcdMessage = Take(message, Width)

\* C25: whenever the runner has gathered its two coroutines, the screen
\* coroutine of the Go and of the Disconnected indicator is a blink (the
\* colour, the delay, then the default colour), and that of the Default, the
\* Standby and the MultipleStandbys indicator is a single output.
C25_IndicatorRendering ==
    rendered # Unset =>
        LET out == screen_outputs(rendered.screen) IN
        /\ Rendering.indicator \in {"Go", "Disconnected"} =>
              /\ Len(out) >= 3
              /\ out[1] = <<"set_hex", rendered.screen[2]>>
              /\ out[2] = <<"sleep", "delay">>
              /\ out[3] = <<"reset">>
        /\ Rendering.indicator \in {"Default", "Standby", "MultipleStandbys"} =>
              Len(out) = 1

\* C26: at every point where another coroutine can run, a node series that
\* holds a cue holds it whole: it has the node state of the table row of its
\* own cue state, the initial one while the initialState flag is raised and
\* the final one once the flag is lowered.
C26_NodeRecordWhole ==
    (Running /\ DOMAIN nodeSeries # {}) =>
        /\ "Node State" \in DOMAIN nodeSeries
        /\ nodeSeries["Cue State"] \in DOMAIN stateFrame
        /\ nodeSeries["Node State"] =
              stateFrame[nodeSeries["Cue State"]]
                        [IF initialState THEN "Initial Node State" ELSE "Final Node State"]

\* C27: once run_tasks has caught the exception and while it waits before
\* the cleanup, no step of another coroutine publishes a node series, changes
\* the indicator or the button light selected in the GPIO object, or changes
\* the text of the display.
C27_NodeDownAfterCatch ==
    [][(orch = "sleeping" /\ orch' = "sleeping") =>
            /\ UNCHANGED <<sent, lcdMessage>>
            /\ Selection(gpio') = Selection(gpio)]_vars

\* C28: justPressed is false right after an adoption, and it is true only
\* while a press has been sampled since the last adoption (changeState has
\* been raised since); so a cycle of __update_LEDs selects the Solid button
\* light only during a cue for which a press has been sampled.
C28_PressOfCurrentCue ==
    /\ [][AdoptStep => ~justPressed']_vars
    /\ [](justPressed => changeState)
    /\ [][update_LEDs_select /\ Selection(gpio').button = "Solid" => changeState]_vars

\* C29: an evaluation that finds a tracked cue with the cue number and the
\* cue state of the node series, whatever its other fields, and the
\* changeState flag lowered, leaves the node series and the two flags as they
\* are and ends in the 1 s sleep of line 400 with nothing handed to
\* send_message.
C29_ImmaterialChangeIgnored ==
    [][(/\ NodeEvaluates
        /\ CuePresent
        /\ DOMAIN nodeSeries # {}
        /\ cueSeries["Cue Number"] = nodeSeries["Cue Number"]
        /\ cueSeries["Cue State"] = nodeSeries["Cue State"]
        /\ ~changeState) =>
            /\ UNCHANGED <<nodeSeries, changeState, initialState>>
            /\ branch' = "idle"
            /\ sent' = << >>
            /\ pc'["update_node_series"] = "sleep"]_vars

\* An evaluation has skipped a tracked cue whose action is not the one of the
\* node series; the node series keeps the action it copied at the adoption.
C29_Witness ==
    /\ branch = "idle"
    /\ pc["update_node_series"] = "sleep"
    /\ CuePresent
    /\ cueSeries["Cue Number"] = nodeSeries["Cue Number"]
    /\ cueSeries["Cue State"] = nodeSeries["Cue State"]
    /\ cueSeries["Action"] # nodeSeries["Action"]
    /\ ~changeState

\* C30: every evaluation of __update_node_series finds the cue series, the
\* state table and the attributes assigned: the cue series is unassigned
\* exactly until __get_cue_series has passed its await of the setup tasks,
\* which it does before __update_node_series passes its own, and the setup
\* tasks are done only when both caches are assigned.
C30_NoUseBeforeInit ==
    /\ [][NodeEvaluates =>
            /\ cueSeries # Unset
            /\ stateFrame # Unset
            /\ attributes_dict # Unset]_vars
    /\ [](cueSeries = Unset <=> pc["get_cue_series"] \in {"init", "await_setup"})
    /\ [](pc["update_node_series"] \notin {"init", "await_setup"} =>
            /\ pc["get_cue_series"] \notin {"init", "await_setup"}
            /\ SetupDone)

\* The state machine has made its first evaluation, on the empty series the
\* tracker assigned, while the tracker still waits for the gate.
C30_Witness ==
    /\ branch = "absent"
    /\ pc["update_node_series"] = "sleep"
    /\ cueSeries = EmptySeries
    /\ pc["get_cue_series"] = "waiting"
    /\ nodeSeries = EmptySeries

\* C32: an evaluation that finds a tracked cue that is new in cue number or
\* cue state and whose cue state has no row in the cached table raises: the
\* coroutine ends there, run_tasks leaves its gather for the handler, and the
\* cycle hands nothing to send_message. From then on the coroutine publishes
\* nothing, the handler and then the cleanup are free to run, and once
\* run_tasks has returned no coroutine runs.
C32_MissingRowIsFatal ==
    /\ [][(NodeEvaluates /\ CuePresent /\ MateriallyNew(nodeSeries) /\ ~HasEntry) =>
            /\ branch' = "raised"
            /\ pc'["update_node_series"] = "failed"
            /\ orch = "gather" /\ orch' = "handling"
            /\ sent' = << >>]_vars
    /\ [][pc["update_node_series"] = "failed" =>
            /\ pc'["update_node_series"] = "failed"
            /\ UNCHANGED sent]_vars
    /\ [](pc["update_node_series"] = "failed" =>
            /\ orch # "gather"
            /\ orch = "handling" => ENABLED run_tasks_handler
            /\ orch = "sleeping" => ENABLED run_tasks_cleanup
            /\ orch = "returned" => ~ENABLED Next)

\* run_tasks has returned after the adoption of cue 13, whose cue state
\* 'Warning' has no row in the table, raised: nothing was sent for the cue.
C32_Witness ==
    /\ orch = "returned"
    /\ branch = "raised"
    /\ pc["update_node_series"] = "failed"
    /\ CuePresent
    /\ cueSeries["Cue State"] \notin DOMAIN stateFrame
    /\ nodeSeries = cueSeries
    /\ sent = << >>

====
